---- MODULE Spec2Model ----
(***************************************************************************)
(* s2cnn/so3_ft.py: the discrete SO(3) Fourier transform so3_ft and the    *)
(* memoised builder of its matrix, setup_so3_ft, decorated with            *)
(* functools.lru_cache(maxsize=32).                                        *)
(*                                                                         *)
(* Numbers are integers: the Wigner-D evaluator (lie_learn, an external    *)
(* library) is a deterministic stand-in with integer entries, so that      *)
(* every product and sum of the transform is exact.  The index None of a   *)
(* cpu device is written -1.                                               *)
(***************************************************************************)
EXTENDS Integers, Sequences, FiniteSets, TLC

(* ------------------------------ bounds -------------------------------- *)
\* bandwidths 0..MaxB are tried
MaxB == 3
\* grids of 0..MaxGridLen samples are tried
MaxGridLen == 2

\* the stand-in evaluator supports the degrees 0..MaxEvalDegree
MaxEvalDegree == 1

(* ------------------------ program constants --------------------------- *)
\* @lru_cache(maxsize=32)
maxsize == 32

\* two callers run at once: one calls so3_ft, the other calls setup_so3_ft
\* directly (first in a loop over fresh keys, then with the arguments of
\* cfg) and in the end setup_so3_ft.cache_clear()
Threads == {"transformer", "builder"}

VARIABLES cfg, cache, heap, frames, recency, nfill

vars == <<cfg, cache, heap, frames, recency, nfill>>

(* ------------------------------ inputs -------------------------------- *)
\* the k-th rotation sample (alpha, beta, gamma); the first is the identity
Angle(k) == <<k - 1, 2 * (k - 1), 3 * (k - 1)>>

\* a grid is a tuple of samples (the cache's lookup refuses a list, which
\* cannot be hashed)
Grid(n) == [i \in 1..n |-> Angle(i)]

Grids == {Grid(n) : n \in 0..MaxGridLen}

Bandwidths == 0..MaxB

Cpu == [type |-> "cpu", index |-> -1]

Cuda0 == [type |-> "cuda", index |-> 0]

Devices == {Cpu, Cuda0}

\* a caller passes device_type and device_index to setup_so3_ft by keyword
\* ("kw", as so3_ft does) or positionally ("pos").  Besides calls on the cpu
\* with keyword device arguments, a run makes calls of one other kind: on
\* another device, or with positional arguments
AltCalls == {[dev |-> Cuda0, form |-> "kw"], [dev |-> Cpu, form |-> "pos"]}

Prod(s) == IF s = <<>> THEN 1 ELSE LET P[k \in 0..Len(s)] == IF k = 0 THEN 1 ELSE P[k - 1] * s[k] IN P[Len(s)]

XVal(k) == IF k % 2 = 1 THEN k + 2 ELSE 0 - k

XLead(n) == IF n = 1 THEN <<1>> ELSE <<2, 1>>

\* a signal batch of shape (*lead, n) on device dev, stored row-major
MkX(n, dev) == [lead |-> XLead(n), n |-> n, data |-> [k \in 1..(Prod(XLead(n)) * n) |-> XVal(k)], dev |-> dev]

XInputs == {MkX(n, d) : n \in 0..MaxGridLen, d \in Devices}

\* the lengths of trailing axis tried against a grid of n samples: n itself
\* and one other length
TrailingLengths(n) == {n, (n + 1) % (MaxGridLen + 1)}

NoX == [lead |-> <<>>, n |-> 0, data |-> <<>>, dev |-> Cpu]

(* -------------------- the Wigner-D evaluator (stand-in) ---------------- *)
Complex(re, im) == [re |-> re, im |-> im]

\* entry (r, c) of the degree-l matrix at rotation a: 1 for degree 0, the
\* identity matrix at the identity rotation, distinct entries elsewhere
WignerEntry(l, a, r, c) ==
    IF l = 0 THEN Complex(1, 0)
    ELSE IF a = <<0, 0, 0>> THEN (IF r = c THEN Complex(1, 0) ELSE Complex(0, 0))
    ELSE Complex(10 * r + c + a[2], r - 2 * c + a[3])

\* wigner_D_matrix(l, alpha, beta, gamma, ...): a (2l+1) x (2l+1) complex
\* matrix, or a failure for a degree the evaluator does not support
wigner_D_matrix(l, a) ==
    IF l > MaxEvalDegree THEN [ok |-> FALSE, mat |-> <<>>]
    ELSE [ok |-> TRUE,
          mat |-> [r \in 1..(2 * l + 1) |-> [c \in 1..(2 * l + 1) |-> WignerEntry(l, a, r, c)]]]

(* --------------------------- numpy pieces ------------------------------ *)
\* conj that leaves its argument as it is
conjOmitted(z) == z

conj(z) == Complex(z.re, 0 - z.im)

ConjMat(M) == [r \in 1..Len(M) |-> [c \in 1..Len(M[r]) |-> conj(M[r][c])]]

\* hstack of a list of 1-d arrays
RECURSIVE hstack(_)
hstack(parts) == IF parts = <<>> THEN <<>> ELSE Head(parts) \o hstack(Tail(parts))

\* Dl.flatten(): row-major
flatten(M) == hstack(M)

\* np.sum([(2 * l + 1) ** 2 for l in range(b)])
RECURSIVE n_spectral_of(_)
n_spectral_of(b) == IF b <= 0 THEN 0 ELSE n_spectral_of(b - 1) + (2 * (b - 1) + 1) * (2 * (b - 1) + 1)

\* np.zeros((n_spatial, n_spectral), dtype=complex).  For b <= 0 the sum of
\* the empty list is the float 0.0, which np.zeros rejects with a TypeError.
zeros(b, grid) ==
    IF b <= 0 THEN [ok |-> FALSE, rows |-> <<>>, ncols |-> 0]
    ELSE [ok |-> TRUE,
          rows |-> [i \in 1..Len(grid) |-> [j \in 1..n_spectral_of(b) |-> Complex(0, 0)]],
          ncols |-> n_spectral_of(b)]

\* [wigner_D_matrix(l, ...).conj() for l in range(b)]: evaluated in order of
\* l, stopping at the first failure; calls counts the evaluator invocations
RECURSIVE Dmats(_, _, _)
Dmats(b, a, l) ==
    IF l >= b THEN [ok |-> TRUE, calls |-> 0, mats |-> <<>>]
    ELSE LET d == wigner_D_matrix(l, a) IN
         IF ~d.ok THEN [ok |-> FALSE, calls |-> 1, mats |-> <<>>]
         ELSE LET rest == Dmats(b, a, l + 1) IN
              [ok |-> rest.ok, calls |-> 1 + rest.calls,
               mats |-> IF rest.ok THEN <<ConjMat(d.mat)>> \o rest.mats ELSE <<>>]

\* np.hstack([Dl.flatten() for Dl in Dmats])
RowOf(mats) == hstack([k \in 1..Len(mats) |-> flatten(mats[k])])

\* F[i] = row: the row must have the length of F's rows, or length 1
\* (broadcast); anything else is a ValueError
SetRow(rows, i, row) ==
    IF Len(row) = Len(rows[i]) THEN [ok |-> TRUE, rows |-> [rows EXCEPT ![i] = row]]
    ELSE IF Len(row) = 1 THEN [ok |-> TRUE, rows |-> [rows EXCEPT ![i] = [j \in 1..Len(rows[i]) |-> row[1]]]]
    ELSE [ok |-> FALSE, rows |-> rows]

\* F.view('float') of one row: real part, then imaginary part, of each entry
ViewFloatRow(row) == [k \in 1..(2 * Len(row)) |-> IF k % 2 = 1 THEN row[(k + 1) \div 2].re ELSE row[k \div 2].im]

Abs(v) == IF v < 0 THEN 0 - v ELSE v

RECURSIVE Quantum(_)
Quantum(a) == IF a < 16777216 THEN 1 ELSE 2 * Quantum(a \div 2)

\* astype(np.float32) of an integer-valued double: 24 bits of mantissa,
\* round to nearest, ties to even
ToFloat32(v) ==
    LET Nearest(q, lo, r) ==
            IF 2 * r < q THEN lo
            ELSE IF 2 * r > q THEN lo + q
            ELSE IF (lo \div q) % 2 = 0 THEN lo ELSE lo + q
        Below(a, q, lo) == Nearest(q, lo, a - lo)
        Rounded(a, q) == Below(a, q, (a \div q) * q)
        Magnitude(a) == Rounded(a, Quantum(a))
    IN IF 0 - 16777216 <= v /\ v <= 16777216 THEN v
       ELSE IF v < 0 THEN 0 - Magnitude(Abs(v)) ELSE Magnitude(Abs(v))

\* ToTensor of the real parts alone (F.real in place of F.view('float'))
ToTensorRealPart(rows, ncols, dev) ==
    [nrows |-> Len(rows), ncols |-> ncols,
     rows |-> [i \in 1..Len(rows) |-> [k \in 1..Len(rows[i]) |-> ToFloat32(rows[i][k].re)]],
     dev |-> dev]

\* torch.tensor(F.view('float').astype(np.float32), device=...): the view
\* doubles the last axis of the complex array of shape (Len(rows), ncols)
ToTensor(rows, ncols, dev) ==
    [nrows |-> Len(rows), ncols |-> 2 * ncols,
     rows |-> [i \in 1..Len(rows) |->
                 LET v == ViewFloatRow(rows[i]) IN [k \in 1..Len(v) |-> ToFloat32(v[k])]],
     dev |-> dev]

(* ------------------------- the lru_cache ------------------------------- *)
NoId == [key |-> [b |-> 0, grid |-> <<>>, device_type |-> "cpu", device_index |-> -1, form |-> "kw"], serial |-> 0]

\* the key lru_cache makes of a call: the argument values and the way the
\* device arguments are passed
MakeKey(b, grid, dev, form) == [b |-> b, grid |-> grid, device_type |-> dev.type, device_index |-> dev.index, form |-> form]

Cached(c, key) == \E k \in 1..Len(c) : c[k].key = key

\* CacheIndex that always finds the oldest entry
CacheIndexOldest(c, key) == 1

CacheIndex(c, key) == CHOOSE k \in 1..Len(c) : c[k].key = key

Without(s, k) == [j \in 1..(Len(s) - 1) |-> IF j < k THEN s[j] ELSE s[j + 1]]

\* CacheHit that leaves the entry where it is
CacheHitNoMove(c, key) == c

\* a hit moves the entry to the most recently used end
CacheHit(c, key) == LET k == CacheIndex(c, key) IN Append(Without(c, k), c[k])

\* Release that frees the tensor whoever else holds it
ReleaseHeld(h, id, held) == [j \in (DOMAIN h) \ {id} |-> h[j]]

\* a reference to a tensor is dropped: the tensor is freed when nothing
\* else holds it
Release(h, id, held) == IF held THEN h ELSE [j \in (DOMAIN h) \ {id} |-> h[j]]

\* after the call: a key added meanwhile by another caller is left alone;
\* a full cache loses its oldest entry; the new entry becomes the newest
CacheStore(c, key, id) ==
    IF Cached(c, key) THEN c
    ELSE IF Len(c) >= maxsize THEN Append(Tail(c), [key |-> key, val |-> id])
    ELSE Append(c, [key |-> key, val |-> id])

\* whether a frame other than those of except, or an entry of c, holds id
Held(id, fr, except, c) ==
    \/ \E t \in Threads \ except : fr[t].F = id
    \/ \E k \in 1..Len(c) : c[k].val = id

\* the identity of a new tensor: the key it was built for and a serial
\* number that tells it from the live tensors built for the same key
FreshId(h, key) ==
    [key |-> key,
     serial |-> CHOOSE n \in 1..(Cardinality(DOMAIN h) + 1) :
                  /\ [key |-> key, serial |-> n] \notin DOMAIN h
                  /\ \A m \in 1..(n - 1) : [key |-> key, serial |-> m] \in DOMAIN h]

Alloc(h, id, tensor) == (id :> tensor) @@ h

\* the heap after CacheStore: the evicted entry's tensor loses the cache's
\* reference; a tensor that was not stored is held by its caller alone
StoreHeap(h, c, key, id, fr) ==
    IF Cached(c, key) THEN h
    ELSE IF Len(c) >= maxsize THEN Release(h, Head(c).val, Held(Head(c).val, fr, {}, Tail(c)))
    ELSE h

\* the heap after cache_clear(): the tensors the cache alone held are
\* freed, those a caller holds stay
ClearHeap(h, fr) == [id \in {j \in DOMAIN h : Held(j, fr, {}, <<>>)} |-> h[id]]

\* the order of last use (hit or insertion) of every key ever cached
Touch(rec, key) == Append(SelectSeq(rec, LAMBDA k : k # key), key)

(* ------------------------------ frames --------------------------------- *)
\* what a freed reference denotes
FreedTensor == [nrows |-> 0, ncols |-> 1, rows |-> <<>>, dev |-> Cpu]

NoKey == MakeKey(0, <<>>, Cpu, "kw")

NoRes == [shape |-> <<>>, data |-> <<>>]

NoArgs == [b |-> 0, grid |-> <<>>, dev |-> Cpu, form |-> "kw"]

\* a caller's frame: where it stands (pc), the call it is in (op, args, key,
\* x), the locals of setup_so3_ft's body (i: the row being filled, Dmats:
\* the matrices evaluated for it so far, rows: the complex array F), the
\* number of evaluator invocations of the call, and what the call gave
Idle == [pc |-> "idle", op |-> "none", args |-> NoArgs, key |-> NoKey, x |-> NoX,
         i |-> 0, Dmats |-> <<>>, rows |-> <<>>,
         calls |-> 0, hit |-> FALSE, F |-> NoId, err |-> "", res |-> NoRes, mm |-> 0,
         cachedAtMul |-> FALSE]

Init ==
    /\ cfg \in [b : Bandwidths, grid : Grids, alt : AltCalls]
    /\ cache = <<>>
    /\ heap = [id \in {} |-> FreedTensor]
    /\ frames = [t \in Threads |-> Idle]
    /\ recency = <<>>
    /\ nfill = 0


(* --------------------------- torch pieces ------------------------------ *)
\* the tensor a reference denotes
Deref(h, id) == IF id \in DOMAIN h THEN h[id] ELSE FreedTensor

\* the product of a row and a column in float32 arithmetic: every product
\* and every partial sum is rounded to the nearest float32 (ties to even);
\* the terms are taken in the order of the samples
RECURSIVE Sum(_, _, _)
Sum(f, k, acc) == IF k > Len(f) THEN acc ELSE Sum(f, k + 1, ToFloat32(acc + ToFloat32(f[k])))

\* torch.mm(x.view(-1, n_spatial), F), row-major, of float32 operands
mm(x, n_spatial, F) ==
    LET N == Len(x.data) \div n_spatial
    IN [k \in 1..(N * F.ncols) |->
          LET r == ((k - 1) \div F.ncols) + 1
              c == ((k - 1) % F.ncols) + 1
          IN Sum([i \in 1..n_spatial |-> x.data[(r - 1) * n_spatial + i] * F.rows[i][c]], 1, 0)]

\* Transform without the assertion of line 26: the product is attempted
\* and torch refuses the operands' shapes
TransformUnchecked(x, F) ==
    LET n_spatial == x.n
        n_spectral == F.ncols \div 2
    IN IF F.ncols % 2 # 0 THEN [err |-> "OddColumnCount", res |-> NoRes, mm |-> 0]
       ELSE IF n_spatial = 0 THEN [err |-> "RuntimeError", res |-> NoRes, mm |-> 0]
       ELSE IF F.dev # x.dev \/ n_spatial # F.nrows THEN [err |-> "RuntimeError", res |-> NoRes, mm |-> 1]
       ELSE [err |-> "", mm |-> 1,
             res |-> [shape |-> x.lead \o <<n_spectral, 2>>, data |-> mm(x, n_spatial, F)]]

\* lines 22-37 of so3_ft, given F: the two assertions, the view of x (which
\* torch refuses for a trailing axis of length 0), the product (which torch
\* refuses for operands on two devices) and the view of the result
Transform(x, F) ==
    LET n_spatial == x.n
        n_spectral == F.ncols \div 2
    IN IF F.ncols % 2 # 0 THEN [err |-> "OddColumnCount", res |-> NoRes, mm |-> 0]
       ELSE IF n_spatial # F.nrows THEN [err |-> "DimensionMismatch", res |-> NoRes, mm |-> 0]
       ELSE IF n_spatial = 0 THEN [err |-> "RuntimeError", res |-> NoRes, mm |-> 0]
       ELSE IF F.dev # x.dev THEN [err |-> "RuntimeError", res |-> NoRes, mm |-> 1]
       ELSE [err |-> "", mm |-> 1,
             res |-> [shape |-> x.lead \o <<n_spectral, 2>>, data |-> mm(x, n_spatial, F)]]

(* ------------------------------ actions -------------------------------- *)
After(f) == IF f.op = "build" THEN "done" ELSE "haveF"

DeviceOf(key) == [type |-> key.device_type, index |-> key.device_index]

\* the loop of lines 53-58 from sample i on, as a function of what the
\* passes before it left (prev): each pass evaluates the matrices of its
\* sample and assigns the stacked row; calls counts the evaluator's
\* invocations
RECURSIVE FillRows(_, _, _, _)
FillRows(b, grid, i, prev) ==
    LET Assigned(calls, s) ==
            IF ~s.ok THEN [ok |-> FALSE, err |-> "ValueError", rows |-> <<>>, calls |-> calls]
            ELSE [ok |-> TRUE, err |-> "", rows |-> s.rows, calls |-> calls]
        Pass(d) ==
            IF ~d.ok THEN [ok |-> FALSE, err |-> "EvaluatorFailure", rows |-> <<>>, calls |-> prev.calls + d.calls]
            ELSE Assigned(prev.calls + d.calls, SetRow(prev.rows, i, RowOf(d.mats)))
    IN IF i > Len(grid) \/ ~prev.ok THEN prev
       ELSE FillRows(b, grid, i + 1, Pass(Dmats(b, grid[i], 0)))

\* the body of setup_so3_ft as a function of its arguments, lines 50-67: F
\* is allocated, filled row by row and turned into a tensor
WholeBody(b, grid, dev) ==
    LET Allocated(z) == [ok |-> z.ok, err |-> IF z.ok THEN "" ELSE "TypeError", rows |-> z.rows, calls |-> 0]
        Converted(last) ==
            [ok |-> last.ok, err |-> last.err, calls |-> last.calls,
             tensor |-> IF last.ok THEN ToTensor(last.rows, n_spectral_of(b), dev) ELSE FreedTensor]
    IN Converted(FillRows(b, grid, 1, Allocated(zeros(b, grid))))

\* the wrapper of lru_cache is entered (directly, or from line 19 of so3_ft
\* with one of the inputs xs): the cache is looked up; a hit returns the
\* stored matrix, a miss goes on to the body of setup_so3_ft
Enter(t, op, args, xs) ==
    /\ frames[t].pc = "idle"
    /\ LET key == MakeKey(args.b, args.grid, args.dev, args.form)
           new == [Idle EXCEPT !.op = op, !.args = args, !.key = key]
       IN
       IF Cached(cache, key)
       THEN /\ cache' = CacheHit(cache, key)
            /\ recency' = Touch(recency, key)
            /\ \E x \in xs :
                 frames' = [frames EXCEPT ![t] = [new EXCEPT !.x = x, !.hit = TRUE,
                              !.F = cache[CacheIndex(cache, key)].val,
                              !.pc = After(new)]]
       ELSE /\ UNCHANGED <<cache, recency>>
            /\ \E x \in xs :
                 frames' = [frames EXCEPT ![t] = [new EXCEPT !.x = x, !.pc = "body"]]
    /\ UNCHANGED <<cfg, heap>>

\* the end of the body, lines 64-69: the tensor is made and returned to the
\* wrapper
Finish(f, rows, calls, h) ==
    LET id == FreshId(h, f.key)
    IN [frame |-> [f EXCEPT !.pc = "store", !.F = id, !.calls = calls,
                            !.i = 0, !.Dmats = <<>>, !.rows = <<>>],
        heap |-> Alloc(h, id, ToTensor(rows, n_spectral_of(f.key.b), DeviceOf(f.key)))]

\* the body raises
Raise(f, err, calls, h) ==
    [frame |-> [f EXCEPT !.pc = "done", !.err = err, !.calls = calls,
                         !.i = 0, !.Dmats = <<>>, !.rows = <<>>],
     heap |-> h]

\* Evaluate that turns a failure of the evaluator into a matrix of zeros
EvaluateOrZeros(l, a) ==
    LET d == wigner_D_matrix(l, a)
    IN [ok |-> TRUE,
        mat |-> IF d.ok THEN ConjMat(d.mat)
                ELSE [r \in 1..(2 * l + 1) |-> [c \in 1..(2 * l + 1) |-> Complex(0, 0)]]]

\* wigner_D_matrix(l, grid[i][0], grid[i][1], grid[i][2], ...).conj()
Evaluate(l, a) ==
    LET d == wigner_D_matrix(l, a)
    IN [ok |-> d.ok, mat |-> IF d.ok THEN ConjMat(d.mat) ELSE <<>>]

\* one invocation of the evaluator, for row i and degree Len(dm), and the
\* code after it up to the next invocation: the row is stored when its
\* last matrix is there (line 58), and after the last row the body ends
Invoke(f, rows, i, dm, h) ==
    LET b == f.key.b
        grid == f.key.grid
        Assigned(s) ==
            IF ~s.ok THEN Raise(f, "ValueError", f.calls + 1, h)
            ELSE IF i < Len(grid)
                 THEN [frame |-> [f EXCEPT !.pc = "loop", !.calls = f.calls + 1,
                                           !.i = i + 1, !.Dmats = <<>>, !.rows = s.rows],
                       heap |-> h]
            ELSE Finish(f, s.rows, f.calls + 1, h)
        Collected(mats) ==
            IF Len(mats) < b
            THEN [frame |-> [f EXCEPT !.pc = "loop", !.calls = f.calls + 1,
                                      !.i = i, !.Dmats = mats, !.rows = rows],
                  heap |-> h]
            ELSE Assigned(SetRow(rows, i, RowOf(mats)))
        Evaluated(d) ==
            IF ~d.ok THEN Raise(f, "EvaluatorFailure", f.calls + 1, h)
            ELSE Collected(Append(dm, d.mat))
    IN Evaluated(Evaluate(Len(dm), grid[i]))

\* the body starts, lines 50-53, and runs up to its second invocation of
\* the evaluator, or to its end
Begin(f, h) ==
    LET z == zeros(f.key.b, f.key.grid)
    IN IF ~z.ok THEN Raise(f, "TypeError", 0, h)
       ELSE IF Len(f.key.grid) = 0 THEN Finish(f, z.rows, 0, h)
       ELSE Invoke(f, z.rows, 1, <<>>, h)

\* a caller inside the body of setup_so3_ft goes on through the next
\* invocation of the evaluator; other callers run between two such steps
BodyStep(t) ==
    LET f == frames[t]
    IN /\ f.pc \in {"body", "loop"}
       /\ \E r \in {IF f.pc = "body" THEN Begin(f, heap) ELSE Invoke(f, f.rows, f.i, f.Dmats, heap)} :
            /\ frames' = [frames EXCEPT ![t] = r.frame]
            /\ heap' = r.heap
       /\ UNCHANGED <<cfg, cache, recency, nfill>>

\* the key of the k-th call of the loop that fills the cache: bandwidth 1
\* and a one-sample grid met nowhere else
FillArgs(k) == [b |-> 1, grid |-> <<<<0, 0, 100 + k>>>>, dev |-> Cpu, form |-> "kw"]

\* the loop makes maxsize - 1 calls
FillCalls == maxsize - 1

\* setup_so3_ft(b, grid, device_type, device_index) called directly, with
\* the device arguments passed as so3_ft passes them or as cfg.alt says; the
\* caller does so once its loop is through
CallBuild(t) ==
    /\ t = "builder"
    /\ nfill = FillCalls
    /\ \E sig \in {[dev |-> Cpu, form |-> "kw"], cfg.alt} :
         Enter(t, "build", [b |-> cfg.b, grid |-> cfg.grid, dev |-> sig.dev, form |-> sig.form], {NoX})
    /\ UNCHANGED nfill

\* for k in 1..FillCalls: setup_so3_ft(*FillArgs(k)): the next call of the
\* loop
CallFill(t) ==
    /\ t = "builder"
    /\ nfill < FillCalls
    /\ Enter(t, "build", FillArgs(nfill + 1), {NoX})
    /\ nfill' = nfill + 1

\* so3_ft(x, b, grid): line 19, for an input x on the device of cfg.alt,
\* whose trailing axis fits the grid or does not
CallTransform(t) ==
    /\ t = "transformer"
    /\ Enter(t, "transform", [b |-> cfg.b, grid |-> cfg.grid, dev |-> cfg.alt.dev, form |-> "kw"],
             {x \in XInputs : x.dev = cfg.alt.dev /\ x.n \in TrailingLengths(Len(cfg.grid))})
    /\ UNCHANGED nfill

\* setup_so3_ft.cache_clear(), the function the decorator of line 40 puts
\* on setup_so3_ft: the cache is emptied, whatever callers are inside the
\* body or hold a matrix; the caller does so after its loop and its builds,
\* as the last thing it does (nfill goes past FillCalls)
CacheClear(t) ==
    /\ t = "builder"
    /\ frames[t].pc = "idle"
    /\ nfill = FillCalls
    /\ cache' = <<>>
    /\ heap' = ClearHeap(heap, frames)
    /\ nfill' = FillCalls + 1
    /\ UNCHANGED <<cfg, frames, recency>>

\* the wrapper's bookkeeping once the body has returned
Store(t) ==
    LET f == frames[t]
    IN /\ f.pc = "store"
       /\ frames' = [frames EXCEPT ![t] = [f EXCEPT !.pc = After(f)]]
       /\ cache' = CacheStore(cache, f.key, f.F)
       /\ heap' = StoreHeap(heap, cache, f.key, f.F, frames)
       /\ recency' = IF Cached(cache, f.key) THEN recency ELSE Touch(recency, f.key)
       /\ UNCHANGED <<cfg, nfill>>

\* lines 22-37 of so3_ft
Multiply(t) ==
    LET f == frames[t]
    IN /\ f.pc = "haveF"
       /\ \E r \in {Transform(f.x, Deref(heap, f.F))} :
            frames' = [frames EXCEPT ![t] = [f EXCEPT !.pc = "done", !.err = r.err, !.res = r.res, !.mm = r.mm,
                                                        !.cachedAtMul = Cached(cache, f.key)]]
       /\ UNCHANGED <<cfg, cache, heap, recency, nfill>>

\* the call returns (or raises) and its caller lets go of what it got
Return(t) ==
    LET f == frames[t]
    IN /\ f.pc = "done"
       /\ frames' = [frames EXCEPT ![t] = Idle]
       /\ heap' = IF f.F = NoId THEN heap ELSE Release(heap, f.F, Held(f.F, frames, {t}, cache))
       /\ UNCHANGED <<cfg, cache, recency, nfill>>

Next ==
    \/ \E t \in Threads : CallBuild(t)
    \/ \E t \in Threads : CallFill(t)
    \/ \E t \in Threads : CallTransform(t)
    \/ \E t \in Threads : BodyStep(t)
    \/ \E t \in Threads : CacheClear(t)
    \/ \E t \in Threads : Store(t)
    \/ \E t \in Threads : Multiply(t)
    \/ \E t \in Threads : Return(t)

Spec == Init /\ [][Next]_vars

(* ============================== claims ================================= *)
\* thread t enters setup_so3_ft in this step
Entering(t) == frames[t].pc = "idle" /\ frames'[t].pc # "idle"

\* thread t leaves the body of setup_so3_ft in this step
EndingBody(t) == frames[t].pc \in {"body", "loop"} /\ frames'[t].pc \notin {"body", "loop"}

\* thread t leaves the cache's bookkeeping in this step
Storing(t) == frames[t].pc = "store" /\ frames'[t].pc # "store"

\* the cache entry e was made by a call with the argument values of a
SameValues(e, a) ==
    /\ e.key.b = a.b
    /\ e.key.grid = a.grid
    /\ e.key.device_type = a.dev.type
    /\ e.key.device_index = a.dev.index

(* ------------------------------- C1 ------------------------------------ *)
\* C1, as stated: a call whose full key (b, grid value, device type, device
\* index) is in the cache is a hit: it is served from the cache with 0
\* invocations of the evaluator.  (lru_cache keys an entry by the way the
\* arguments are passed as well: after a call with the device arguments by
\* keyword, the call with the same values passed positionally is a miss
\* that runs the body again)
C1KeyIsValuesOnly ==
    [][\A t \in Threads :
          (Entering(t) /\ \E k \in 1..Len(cache) : SameValues(cache[k], frames'[t].args))
             => (frames'[t].hit /\ frames'[t].calls = 0)]_vars

(* ------------------------------- C2 ------------------------------------ *)
\* the position of key in the order of last use
LastUse(key) == CHOOSE k \in 1..Len(recency) : recency[k] = key

\* the entry of the cache whose most recent use is the oldest
Oldest == CHOOSE e \in {cache[k] : k \in 1..Len(cache)} :
             \A k \in 1..Len(cache) : LastUse(e.key) <= LastUse(cache[k].key)

\* the keys of the cache are the Len(c) most recently used ones, in the
\* order of their last use
HoldsMostRecent(c, rec) ==
    /\ Len(c) <= Len(rec)
    /\ \A k \in 1..Len(c) : c[k].key = rec[Len(rec) - Len(c) + k]

\* C2: the cache never holds more than 32 entries, all of distinct keys; a
\* successful build of a new key into a cache of 32 evicts exactly the
\* entry whose last use (hit or insertion) is the oldest and keeps the
\* others; a later build of an evicted key is a miss that runs the body and
\* invokes the evaluator again
C2BoundedLru ==
    [][/\ (cache' # cache \/ recency' # recency) =>
            /\ Len(cache') <= 32
            /\ \A j \in 1..Len(cache') : \A k \in (j + 1)..Len(cache') : cache'[j].key # cache'[k].key
            /\ HoldsMostRecent(cache', recency')
       /\ \A t \in Threads :
            /\ (Storing(t) /\ Len(cache) = 32 /\ ~\E k \in 1..Len(cache) : cache[k].key = frames[t].key) =>
                  /\ Len(cache') = 32
                  /\ {cache'[k] : k \in 1..Len(cache')}
                        = ({cache[k] : k \in 1..Len(cache)} \ {Oldest})
                             \cup {[key |-> frames[t].key, val |-> frames[t].F]}
            /\ (/\ Entering(t)
                /\ \E k \in 1..Len(recency) : recency[k] = frames'[t].key
                /\ ~\E k \in 1..Len(cache) : cache[k].key = frames'[t].key) =>
                  (~frames'[t].hit /\ frames'[t].pc = "body")
            /\ (EndingBody(t) /\ frames'[t].pc = "store") =>
                  frames'[t].calls = Len(frames'[t].args.grid) * frames'[t].args.b]_vars

\* the cache is full and a key that was evicted from it has been built
\* again, with new invocations of the evaluator, and waits to be stored
C2Witness ==
    \E t \in Threads :
       /\ frames[t].pc = "store" /\ frames[t].calls > 0
       /\ Len(cache) = 32
       /\ \E k \in 1..Len(recency) : recency[k] = frames[t].key
       /\ ~\E k \in 1..Len(cache) : cache[k].key = frames[t].key

(* ------------------------------- C3 ------------------------------------ *)
\* C3, as stated: of the callers that build the same key at once at most
\* one has run the construction loop for it, and every matrix a caller
\* holds is completely filled
C3SingleFlight ==
    /\ \A t, u \in Threads :
          (t # u /\ frames[t].pc \in {"loop", "store"} /\ frames[u].pc \in {"loop", "store"}
             /\ frames[t].calls > 0 /\ frames[u].calls > 0)
             => frames[t].key # frames[u].key
    /\ \A t \in Threads :
          frames[t].F # NoId =>
             \A i \in 1..Deref(heap, frames[t].F).nrows :
                Len(Deref(heap, frames[t].F).rows[i]) = Deref(heap, frames[t].F).ncols

(* ------------------------------- C4 ------------------------------------ *)
\* the bandwidths and grids for which the builder returns a matrix
Builds(b, grid) == b >= 1 /\ (grid = <<>> \/ b <= MaxEvalDegree + 1)

\* C4: a transform whose input has a trailing axis of a length other than
\* len(grid) fails, without a multiply and without a result; the failure is
\* DimensionMismatch whenever the builder returned a matrix, and otherwise
\* the builder's own failure
C4DimensionMismatch ==
    \A t \in Threads :
       (frames[t].op = "transform" /\ frames[t].pc = "done"
          /\ frames[t].x.n # Len(frames[t].args.grid)) =>
          /\ frames[t].mm = 0
          /\ frames[t].res = NoRes
          /\ frames[t].err # ""
          /\ Builds(frames[t].args.b, frames[t].args.grid) <=> frames[t].err = "DimensionMismatch"

\* a transform of an input with two samples over a grid of one has failed
\* with DimensionMismatch, the matrix being cached
C4Witness ==
    \E t \in Threads :
       /\ frames[t].op = "transform" /\ frames[t].pc = "done"
       /\ frames[t].x.n = 2 /\ Len(frames[t].args.grid) = 1
       /\ frames[t].err = "DimensionMismatch" /\ frames[t].mm = 0
       /\ \E k \in 1..Len(cache) : cache[k].key = frames[t].key

(* ------------------------------- C5 ------------------------------------ *)
\* C5, as stated: a build with b <= 0 or with an empty grid fails, returns
\* no matrix and enters nothing into the cache
C5InvalidInputFails ==
    /\ \A t \in Threads :
          (frames[t].pc # "idle" /\ (frames[t].args.b <= 0 \/ frames[t].args.grid = <<>>)) =>
             /\ frames[t].F = NoId
             /\ frames[t].pc \in {"body", "done"}
             /\ frames[t].pc = "done" => frames[t].err # ""
    /\ \A k \in 1..Len(cache) : cache[k].key.b >= 1 /\ cache[k].key.grid # <<>>

(* ------------------------------- C6 ------------------------------------ *)
\* sum over l = 0..b-1 of (2l+1)^2, in closed form
SumOddSquares(b) == (b * (2 * b - 1) * (2 * b + 1)) \div 3

\* the matrix has the shape the claim gives for bandwidth b and grid
ShapeFor(F, b, grid) ==
    /\ F.nrows = Len(grid) /\ F.ncols = 2 * SumOddSquares(b)
    /\ DOMAIN F.rows = 1..Len(grid)
    /\ \A row \in {F.rows[i] : i \in 1..Len(grid)} : Len(row) = 2 * SumOddSquares(b)

\* C6: for b >= 1 and a non-empty grid, every matrix the builder returned
\* (cached, or held by a caller) has len(grid) rows and 2 * n_spectral
\* columns, and no transform fails with OddColumnCount
C6Shape ==
    /\ \A id \in DOMAIN heap :
          (id.key.b >= 1 /\ id.key.grid # <<>>) =>
             \A F \in {heap[id]} : ShapeFor(F, id.key.b, id.key.grid)
    /\ \A k \in 1..Len(cache) : cache[k].val \in DOMAIN heap
    /\ \A t \in Threads :
          (frames[t].args.b >= 1 /\ frames[t].args.grid # <<>>) => frames[t].err # "OddColumnCount"

\* a matrix for bandwidth 2 over a grid of two samples is cached (2 rows
\* and 20 columns) and a transform has passed the column check with it
C6Witness ==
    \E t \in Threads :
       /\ frames[t].op = "transform" /\ frames[t].pc = "done" /\ frames[t].err = ""
       /\ frames[t].args.b = 2 /\ Len(frames[t].args.grid) = 2
       /\ \E k \in 1..Len(cache) :
             /\ cache[k].key = frames[t].key
             /\ heap[cache[k].val].nrows = 2 /\ heap[cache[k].val].ncols = 20

(* ------------------------------- C7 ------------------------------------ *)
\* the degree of coefficient j (counted from 0)
DegreeOf(j) == CHOOSE l \in 0..j : SumOddSquares(l) <= j /\ j < SumOddSquares(l + 1)

\* the conjugated basis sample of coefficient j at the rotation a: the
\* entry of the degree's matrix that j meets in row-major order
ConjBasis(j, a) ==
    LET l == DegreeOf(j)
        within == j - SumOddSquares(l)
        e == WignerEntry(l, a, (within \div (2 * l + 1)) + 1, (within % (2 * l + 1)) + 1)
    IN <<e.re, 0 - e.im>>

RECURSIVE Total(_)
Total(s) == IF s = <<>> THEN 0 ELSE Head(s) + Total(Tail(s))

\* the conjugated basis samples of the coefficients 0..n-1 on the grid:
\* entry [j + 1][i] is that of coefficient j at grid[i]
BasisTable(n, grid) == [j \in 1..n |-> [i \in 1..Len(grid) |-> ConjBasis(j - 1, grid[i])]]

\* C7: for an input whose trailing axis has the length of the (non-empty)
\* grid, and a bandwidth b >= 1 the evaluator supports, so3_ft ends with an
\* array of shape (..., n_spectral, 2) whose entry [j, 0] is the sum over
\* the samples i of x[i] * Re(conj(basis j at grid[i])) and whose entry
\* [j, 1] is the same sum with the imaginary part, j running over the
\* degrees in increasing order and over each degree's matrix in row-major
\* order; column 2j of the matrix holds the real part and column 2j + 1 the
\* imaginary part; for b = 1 and one sample, x = [[v]] gives [[[v, 0]]]
C7Coefficients ==
    [][\A t \in Threads :
          LET f == frames'[t]
              b == f.args.b
              grid == f.args.grid
              n == SumOddSquares(b)
              m == Len(grid)
          IN (f.op = "transform" /\ f.pc = "done" /\ frames[t].pc # "done" /\ f.x.n = m
                /\ grid # <<>> /\ b >= 1 /\ b <= MaxEvalDegree + 1) =>
             \A basis \in {BasisTable(n, grid)} : \A F \in {heap'[f.F]} :
                /\ f.err = ""
                /\ f.res.shape = f.x.lead \o <<n, 2>>
                /\ Len(f.res.data) = Prod(f.x.lead) * n * 2
                /\ \A r \in 1..Prod(f.x.lead) : \A j \in 0..(n - 1) : \A part \in {0, 1} :
                      f.res.data[(r - 1) * 2 * n + 2 * j + part + 1]
                         = Total([i \in 1..m |-> f.x.data[(r - 1) * m + i] * basis[j + 1][i][part + 1]])
                /\ \A i \in 1..m : \A j \in 0..(n - 1) : \A part \in {0, 1} :
                      F.rows[i][2 * j + part + 1] = basis[j + 1][i][part + 1]
                /\ (b = 1 /\ m = 1 /\ f.x.lead = <<1>>) =>
                      f.res = [shape |-> <<1, 1, 2>>, data |-> <<f.x.data[1], 0>>]]_vars

\* a transform with bandwidth 2 of a batch of two signals over two samples
\* has returned 2 x 10 x 2 numbers, some of them from imaginary parts
C7Witness ==
    \E t \in Threads :
       /\ frames[t].op = "transform" /\ frames[t].pc = "done" /\ frames[t].err = ""
       /\ frames[t].args.b = 2 /\ Len(frames[t].args.grid) = 2
       /\ frames[t].res.shape = <<2, 1, 10, 2>>
       /\ Len(frames[t].res.data) = 40
       /\ \E j \in 0..9 : frames[t].res.data[2 * j + 2] # 0

(* ------------------------------- C8 ------------------------------------ *)
\* what so3_ft(x, b, grid) gives when nothing is cached
Uncached(x, b, grid) ==
    LET Multiplied(r) == [err |-> r.err, res |-> r.res]
        Built(w) == IF w.ok THEN Multiplied(Transform(x, w.tensor))
                    ELSE [err |-> w.err, res |-> NoRes]
    IN Built(WholeBody(b, grid, x.dev))

\* C8: whatever was built, cached, evicted or rebuilt before, a transform
\* that finishes gives the value or the failure that the same call gives
\* on an empty cache
C8HistoryIndependent ==
    [][\A t \in Threads :
          (frames'[t].op = "transform" /\ frames'[t].pc = "done" /\ frames[t].pc # "done") =>
             [err |-> frames'[t].err, res |-> frames'[t].res]
                = Uncached(frames'[t].x, frames'[t].args.b, frames'[t].args.grid)]_vars

\* a transform served from a cache that is full, of other keys but for two,
\* and has evicted entries, has returned a value
C8Witness ==
    \E t \in Threads :
       /\ frames[t].op = "transform" /\ frames[t].pc = "done"
       /\ frames[t].hit /\ frames[t].err = "" /\ frames[t].res # NoRes
       /\ Len(cache) = 32 /\ Len(recency) > 32

(* ------------------------------- C9 ------------------------------------ *)
\* C9: a matrix a caller obtained stays allocated and keeps every entry it
\* has, also when its cache entry is evicted (or the cache is cleared)
\* before the caller's multiply;
\* the multiply then uses the complete matrix of the call's arguments and
\* the transform returns what it returns without eviction
C9EvictionKeepsMatrix ==
    [][\A t \in Threads :
          LET f == frames[t]
          IN
          /\ f.F # NoId => f.F \in DOMAIN heap
          /\ frames'[t].F # NoId => frames'[t].F \in DOMAIN heap'
          /\ (f.F # NoId /\ frames'[t].F = f.F) => heap'[f.F] = heap[f.F]
          /\ (f.pc = "haveF" /\ frames'[t].pc = "done") =>
                \A built \in {WholeBody(f.args.b, f.args.grid, f.args.dev).tensor} :
                \A r \in {Transform(f.x, built)} :
                   /\ heap[f.F] = built
                   /\ frames'[t].err = r.err
                   /\ frames'[t].res = r.res]_vars

\* a transform got its matrix from the cache by a hit, the entry was evicted
\* before the multiply, and the transform returned a value
C9Witness ==
    \E t \in Threads :
       /\ frames[t].op = "transform" /\ frames[t].pc = "done"
       /\ frames[t].hit /\ ~frames[t].cachedAtMul
       /\ frames[t].err = "" /\ frames[t].mm = 1
       /\ ~\E k \in 1..Len(cache) : cache[k].val = frames[t].F

(* ------------------------------- C10 ----------------------------------- *)
\* the evaluator fails in a build with these arguments
EvaluatorFails(a) == a.b > MaxEvalDegree + 1 /\ a.grid # <<>>

\* C10: a build in which the evaluator fails is a miss (no such key is
\* ever cached); its body invokes the evaluator once for each degree up to
\* the failing one and ends there with the evaluator's failure, for the
\* caller of setup_so3_ft as for the caller of so3_ft (which multiplies
\* nothing); no step of it changes the cache, its order or its matrices
C10FailurePropagates ==
    [][/\ \A t \in Threads :
            /\ (Entering(t) /\ EvaluatorFails(frames'[t].args)) =>
                  (~frames'[t].hit /\ frames'[t].pc = "body")
            /\ (EvaluatorFails(frames[t].args) /\ frames'[t] # frames[t]) =>
                  /\ cache' = cache /\ heap' = heap /\ recency' = recency
                  /\ frames'[t].pc \in {"loop", "done", "idle"}
                  /\ frames'[t].F = NoId /\ frames'[t].res = NoRes /\ frames'[t].mm = 0
                  /\ frames'[t].pc = "loop" =>
                        (frames'[t].calls = frames[t].calls + 1 /\ frames'[t].calls <= MaxEvalDegree + 1)
                  /\ frames'[t].pc = "done" =>
                        (frames'[t].err = "EvaluatorFailure" /\ frames'[t].calls = MaxEvalDegree + 2)
       /\ \A k \in 1..Len(cache') :
            ~(cache'[k].key.b > MaxEvalDegree + 1 /\ cache'[k].key.grid # <<>>)]_vars

\* with other matrices cached, a build and a transform of the same key have
\* both failed in the evaluator, each after invoking it
C10Witness ==
    /\ \A t \in Threads :
          /\ frames[t].pc = "done" /\ frames[t].err = "EvaluatorFailure"
          /\ frames[t].calls > 0
    /\ frames["transformer"].key = frames["builder"].key
    /\ Len(cache) > 0

====
